---------------------------- MODULE Spec2Model ----------------------------
(***************************************************************************)
(* Model of the Modbus polling programs of the repository.                 *)
(*                                                                         *)
(*   src/tcp.py  continuous mode: load the configuration, connect the      *)
(*               MQTT channel, then sweep all PLCs forever, publishing     *)
(*               every successful read, until KeyboardInterrupt.           *)
(*   src/ip.py   one-shot mode: one pass over the DEVICES list, printing   *)
(*               the results.                                              *)
(*                                                                         *)
(* Every call into a library (ModbusTcpClient, AWSIoTMQTTClient, time,     *)
(* input) is one action; what the call returns or raises is an input of    *)
(* the action.  A call is "in flight" while pc names it.                   *)
(***************************************************************************)
EXTENDS Integers, Sequences, FiniteSets, TLC

\* ------------------------------------------------------------------ bounds
\* Largest number of PLC sections a configuration of tcp.py holds.
MaxDevices == 2
\* Largest number of read specifications of one PLC section.
MaxReads == 2
\* The sweep counter (a history variable) stops counting here.
MaxSweeps == 2

\* ------------------------------------------------------------- data model
ReadSpec(a, c) == [address |-> a, count |-> c]

\* ip.py, lines 9-28: the module-level device list of the one-shot program.
DEVICES ==
    << [name |-> "Modbus_Device_1", reads |-> << ReadSpec(0, 2) >>],
       [name |-> "Modbus_Device_2", reads |-> << ReadSpec(0, 2), ReadSpec(1, 2) >>] >>

PlcNames == << "PLC_A", "PLC_B", "PLC_C", "PLC_D", "PLC_E", "PLC_F" >>

\* ---------------------------------------------- the queries value, parsed
\* A Python str is a sequence of one-character strings.
Digits == << "0", "1", "2", "3", "4", "5", "6", "7", "8", "9" >>
DigitChars == { Digits[i] : i \in 1..10 }

\* str.isdigit(): not empty, and digits only.
IsDigit(str) == str # << >> /\ \A i \in 1..Len(str) : str[i] \in DigitChars

DigitValue(c) == (CHOOSE i \in 1..10 : Digits[i] = c) - 1

\* int(str) of a str of digits.
RECURSIVE ToInt(_)
ToInt(str) ==
    IF str = << >> THEN 0
    ELSE 10 * ToInt(SubSeq(str, 1, Len(str) - 1)) + DigitValue(str[Len(str)])

\* str.strip(): the blanks at both ends removed.
RECURSIVE Strip(_)
Strip(str) ==
    CASE str = << >> -> str
      [] str[1] = " " -> Strip(Tail(str))
      [] str[Len(str)] = " " -> Strip(SubSeq(str, 1, Len(str) - 1))
      [] OTHER -> str

\* str.split(sep): the pieces between the separators, at least one piece.
RECURSIVE Split(_, _)
Split(str, sep) ==
    IF \E i \in 1..Len(str) : str[i] = sep
      THEN LET at == CHOOSE i \in 1..Len(str) :
                        str[i] = sep /\ \A k \in 1..(i - 1) : str[k] # sep
           IN  << SubSeq(str, 1, at - 1) >>
                   \o Split(SubSeq(str, at + 1, Len(str)), sep)
      ELSE << str >>

\* tcp.py lines 62-66: what one piece q of the queries value adds to reads.
ParseQuery(q) ==
    IF Strip(q) = << >>
      THEN << >>
      ELSE LET parts == Split(Strip(q), ",")
           IN  IF Len(parts) = 2 /\ IsDigit(parts[1]) /\ IsDigit(parts[2])
                 THEN << ReadSpec(ToInt(parts[1]), ToInt(parts[2])) >>
                 ELSE << >>

\* tcp.py lines 60-66: the reads list of a section with queries value raw.
RECURSIVE ParsePieces(_)
ParsePieces(pieces) ==
    IF pieces = << >> THEN << >>
    ELSE ParseQuery(Head(pieces)) \o ParsePieces(Tail(pieces))

ParseQueries(raw) == ParsePieces(Split(raw, ";"))

\* tcp.py lines 54-74: one descriptor per non-AWS section of the file.
load_plcs_from_config(config) ==
    [i \in 1..Len(config) |->
        [name |-> config[i].name, reads |-> ParseQueries(config[i].queries)]]

\* str(n), and the queries value written in the format of line 60,
\* "address,count;address,count".
RECURSIVE ToStr(_)
ToStr(n) ==
    IF n < 10 THEN << Digits[n + 1] >>
    ELSE ToStr(n \div 10) \o << Digits[(n % 10) + 1] >>

RECURSIVE JoinQueries(_)
JoinQueries(reads) ==
    IF reads = << >> THEN << >>
    ELSE ToStr(Head(reads).address) \o << "," >> \o ToStr(Head(reads).count)
           \o (IF Len(reads) = 1 THEN << >> ELSE << ";" >>)
           \o JoinQueries(Tail(reads))

\* The reads list of the i-th configured PLC: the first has one entry, the
\* second MaxReads entries, the later ones none and one in turn.
PlcReads(i) ==
    LET n == IF i = 2 THEN MaxReads ELSE i % 2
    IN  [r \in 1..n |-> ReadSpec(r - 1, 2)]

\* A config file of n PLC sections, their queries values well-formed.
PlcSections(n) ==
    [i \in 1..n |-> [name |-> PlcNames[i], queries |-> JoinQueries(PlcReads(i))]]

\* Queries values of a file with one PLC section: "" (also what line 58 reads
\* when the key is absent), "0,2;1,2", " 0,2 ; 1,2 ", "0, 2;1,2", "0,0",
\* "00,2", "-1,2;0,2", "0,2,3;1,2" and "0,2;;10,2;".
QueryValues ==
    { << >>,
      << "0", ",", "2", ";", "1", ",", "2" >>,
      << " ", "0", ",", "2", " ", ";", " ", "1", ",", "2", " " >>,
      << "0", ",", " ", "2", ";", "1", ",", "2" >>,
      << "0", ",", "0" >>,
      << "0", "0", ",", "2" >>,
      << "-", "1", ",", "2", ";", "0", ",", "2" >>,
      << "0", ",", "2", ",", "3", ";", "1", ",", "2" >>,
      << "0", ",", "2", ";", ";", "1", "0", ",", "2", ";" >> }

\* The config files the program is started with.
ConfigFiles ==
    { PlcSections(n) : n \in 0..MaxDevices }
        \cup { << [name |-> "PLC_0", queries |-> q] >> : q \in QueryValues }

\* What the loaders of lines 115-117 can do: return, or raise.
LoadOutcomes == {"ok", "FileNotFoundError", "KeyError", "ValueError"}

\* The registers of a response to a read of `count` registers: the device
\* decides how many it sends.
Registers(n) == [i \in 1..n |-> 7 * i]
RegisterResponses(count) == { Registers(count), Registers(count - 1) }

\* What client.read_holding_registers(...) can do.
ReadKinds == {"ok", "isError", "ModbusException", "Exception", "TypeError"}
ReadOutcomes(count) ==
    { [kind |-> "ok", regs |-> rs] : rs \in RegisterResponses(count) }
        \cup { [kind |-> kd, regs |-> << >>] : kd \in ReadKinds \ {"ok"} }

\* The counts of the read specifications of all device lists (2 in ip.py
\* lines 15-26 and in the well-formed queries values, 0 in "0,0"), and what
\* their reads can do.
ReadCounts == {0, 2}
AllReadOutcomes == UNION { ReadOutcomes(c) : c \in ReadCounts }

\* What ModbusTcpClient(...), client.connect(), client.close() and
\* mqtt_client.publish(...) can do.
CallOutcomes == {"ok", "raise"}
ConnectOutcomes == {"true", "false", "raise"}

VARIABLES
    mode,          \* "continuous" (tcp.py) or "oneshot" (ip.py)
    config,        \* the PLC sections of the config file tcp.py is started with
    calls,         \* history: the read_holding_registers calls of this sweep
    printed,       \* history: the results ip.py has printed
    plcs,          \* PLCS / DEVICES: the device list being polled
    pc,            \* the statement the program is at
    dev,           \* index of the device of the current for-iteration
    ri,            \* index of the read specification being read
    pi,            \* index of the result being handled
    results,       \* the list read_holding_registers builds and returns
    outs,          \* history: how each read of the current device ended
    okReads,       \* history: the successful reads of the current sweep
    sent,          \* history: the mqtt publish calls of the current sweep
    attempts,      \* history: devices whose connect() was called this sweep
    connected,     \* history: devices whose connect() returned True this sweep
    closes,        \* history: close() calls per device this sweep
    open,          \* devices whose connection is connected and not closed
    sweeps,        \* history: number of the current sweep (stops at MaxSweeps)
    mqttConnected, \* the MQTT channel is connected
    pending,       \* the exception propagating through a finally block
    cause,         \* why the program left the polling loop
    interruptedAt, \* history: the pc at which KeyboardInterrupt arrived
    exitCode       \* process exit status: 0 normal, 1 for any non-zero status

vars == << mode, config, calls, printed, plcs, pc, dev, ri, pi, results, outs, okReads, sent, attempts,
           connected, closes, open, sweeps, mqttConnected, pending, cause,
           interruptedAt, exitCode >>

NoCloses(ps) == [d \in 1..Len(ps) |-> 0]

Init ==
    /\ mode \in {"continuous", "oneshot"}
    /\ config \in IF mode = "oneshot" THEN { << >> } ELSE ConfigFiles
    /\ calls = << >>
    /\ printed = << >>
    /\ plcs = IF mode = "oneshot" THEN DEVICES ELSE << >>
    /\ pc = IF mode = "oneshot" THEN "construct" ELSE "load"
    /\ dev = 1
    /\ ri = 1
    /\ pi = 1
    /\ results = << >>
    /\ outs = << >>
    /\ okReads = << >>
    /\ sent = << >>
    /\ attempts = << >>
    /\ connected = {}
    /\ closes = NoCloses(plcs)
    /\ open = {}
    /\ sweeps = IF mode = "oneshot" THEN 1 ELSE 0
    /\ mqttConnected = FALSE
    /\ pending = "none"
    /\ cause = "none"
    /\ interruptedAt = "none"
    /\ exitCode = 0


\* ------------------------------------------------------- tcp.py: startup
\* A new pass of `for plc in PLCS` (tcp.py line 143) over the list ps.
BeginSweep(ps) ==
    /\ dev' = 1
    /\ pc' = IF Len(ps) = 0 THEN "sleep" ELSE "construct"
    /\ attempts' = << >>
    /\ connected' = {}
    /\ closes' = NoCloses(ps)
    /\ calls' = << >>
    /\ okReads' = << >>
    /\ sent' = << >>
    /\ sweeps' = IF sweeps < MaxSweeps THEN sweeps + 1 ELSE sweeps

\* As TcpLoad, with the error logged and the program going on.
TcpLoad_NoExit(o, cfg) ==
    /\ mode = "continuous"
    /\ pc = "load"
    /\ IF o = "ok"
         THEN /\ plcs' = cfg
              /\ closes' = NoCloses(cfg)
              /\ pc' = "mqtt_connect"
              /\ UNCHANGED << cause, exitCode >>
         ELSE /\ plcs' = cfg
              /\ closes' = NoCloses(cfg)
              /\ pc' = "mqtt_connect"
              /\ cause' = "config"
              /\ UNCHANGED exitCode
    /\ UNCHANGED << mode, config, calls, printed, dev, ri, pi, results, outs,
                    okReads, sent, attempts, connected, open, sweeps,
                    mqttConnected, pending, interruptedAt >>

\* tcp.py lines 114-120: the three loaders; FileNotFoundError and KeyError
\* are logged and end the process with sys.exit(1), any other exception
\* ends it with a traceback and a non-zero status as well.
TcpLoad(o, cfg) ==
    /\ mode = "continuous"
    /\ pc = "load"
    /\ IF o = "ok"
         THEN /\ plcs' = cfg
              /\ closes' = NoCloses(cfg)
              /\ pc' = "mqtt_connect"
              /\ UNCHANGED << cause, exitCode >>
         ELSE /\ pc' = "exited"
              /\ cause' = "config"
              /\ exitCode' = 1
              /\ UNCHANGED << plcs, closes >>
    /\ UNCHANGED << mode, config, calls, printed,
                    dev, ri, pi, results, outs, okReads, sent, attempts,
                    connected, open, sweeps, mqttConnected, pending,
                    interruptedAt >>

\* As TcpMqttConnect, with the error logged and the loop entered all the same.
TcpMqttConnect_NoExit(o) ==
    /\ mode = "continuous"
    /\ pc = "mqtt_connect"
    /\ mqttConnected' = (o = "ok")
    /\ cause' = IF o = "ok" THEN cause ELSE "mqtt"
    /\ BeginSweep(plcs)
    /\ UNCHANGED << mode, config, printed, plcs, ri, pi, results, outs, open,
                    pending, interruptedAt, exitCode >>

\* tcp.py lines 134-139: mqtt_client.connect(); an exception is logged and
\* ends the process with sys.exit(1).  Otherwise the while loop is entered.
TcpMqttConnect(o) ==
    /\ mode = "continuous"
    /\ pc = "mqtt_connect"
    /\ IF o = "ok"
         THEN /\ mqttConnected' = TRUE
              /\ BeginSweep(plcs)
              /\ UNCHANGED << cause, exitCode >>
         ELSE /\ pc' = "exited"
              /\ cause' = "mqtt"
              /\ exitCode' = 1
              /\ UNCHANGED << mqttConnected, dev, attempts, connected, closes,
                              calls, okReads, sent, sweeps >>
    /\ UNCHANGED << mode, config, printed, plcs, ri, pi, results, outs, open,
                    pending, interruptedAt >>

\* ------------------------------------------------ tcp.py: the polling loop
\* An exception leaving the while loop (tcp.py lines 141-166): it is no
\* KeyboardInterrupt, so only the finally block runs before it ends the
\* process with a traceback.
TcpFault ==
    /\ pc' = "input"
    /\ pending' = "exception"
    /\ cause' = "fault"

\* The for statement takes the next PLC, or the sweep is over (line 162).
TcpNextDevice ==
    IF dev < Len(plcs)
      THEN /\ dev' = dev + 1
           /\ pc' = "construct"
      ELSE /\ dev' = dev
           /\ pc' = "sleep"

\* tcp.py line 144: client = ModbusTcpClient(plc["ip"], port=plc["port"]).
TcpConstruct(o) ==
    /\ mode = "continuous"
    /\ pc = "construct"
    /\ IF o = "ok"
         THEN /\ pc' = "connect"
              /\ UNCHANGED << pending, cause >>
         ELSE TcpFault
    /\ UNCHANGED << mode, config, calls, printed,
                    plcs, dev, ri, pi, results, outs, okReads, sent,
                    attempts, connected, closes, open, sweeps, mqttConnected,
                    interruptedAt, exitCode >>

\* Where read_holding_registers and the loop over its results stand once
\* r - 1 reads are done and p - 1 of the results res are handled.
AfterHandled(p, res) == IF p <= Len(res) THEN "publish" ELSE "close"

\* As AfterRead, with the try statement around the whole loop: the first
\* failed read ends the reading.
AfterRead_StopsAtFailure(d, r, res) ==
    IF r <= Len(plcs[d].reads) /\ (res = << >> \/ res[Len(res)].error = "none")
      THEN "read"
      ELSE AfterHandled(1, res)

AfterRead(d, r, res) ==
    IF r <= Len(plcs[d].reads) THEN "read" ELSE AfterHandled(1, res)

\* As TcpConnect, with the False branch going on to the reads.
TcpConnect_FalseFallsThrough(o) ==
    /\ mode = "continuous"
    /\ pc = "connect"
    /\ attempts' = Append(attempts, dev)
    /\ CASE o = "true" ->
              /\ connected' = connected \cup {dev}
              /\ open' = open \cup {dev}
              /\ results' = << >>
              /\ outs' = << >>
              /\ ri' = 1
              /\ pi' = 1
              /\ pc' = AfterRead(dev, 1, << >>)
              /\ UNCHANGED << pending, cause >>
         [] o = "false" ->
              /\ results' = << >>
              /\ outs' = << >>
              /\ ri' = 1
              /\ pi' = 1
              /\ pc' = AfterRead(dev, 1, << >>)
              /\ UNCHANGED << connected, open, pending, cause >>
         [] OTHER ->
              /\ TcpFault
              /\ UNCHANGED << connected, open, results, outs, ri, pi >>
    /\ UNCHANGED << mode, config, calls, printed, plcs, dev, okReads, sent,
                    closes, sweeps, mqttConnected, interruptedAt, exitCode >>

\* tcp.py lines 145-152: client.connect().  False: log, then close (line
\* 147).  True: read_holding_registers starts with results = [] (line 78).
TcpConnect(o) ==
    /\ mode = "continuous"
    /\ pc = "connect"
    /\ attempts' = Append(attempts, dev)
    /\ CASE o = "true" ->
              /\ connected' = connected \cup {dev}
              /\ open' = open \cup {dev}
              /\ results' = << >>
              /\ outs' = << >>
              /\ ri' = 1
              /\ pi' = 1
              /\ pc' = AfterRead(dev, 1, << >>)
              /\ UNCHANGED << pending, cause >>
         [] o = "false" ->
              /\ pc' = "close_failed"
              /\ UNCHANGED << connected, open, results, outs, ri, pi, pending,
                              cause >>
         [] OTHER ->
              /\ TcpFault
              /\ UNCHANGED << connected, open, results, outs, ri, pi >>
    /\ UNCHANGED << mode, config, calls, printed,
                    plcs, dev, okReads, sent, closes, sweeps,
                    mqttConnected, interruptedAt, exitCode >>

\* As TcpCloseFailed, with break in the place of continue.
TcpCloseFailed_Breaks(o) ==
    /\ mode = "continuous"
    /\ pc = "close_failed"
    /\ closes' = [closes EXCEPT ![dev] = @ + 1]
    /\ IF o = "ok"
         THEN /\ pc' = "sleep"
              /\ UNCHANGED << dev, pending, cause >>
         ELSE /\ TcpFault
              /\ UNCHANGED dev
    /\ UNCHANGED << mode, config, calls, printed,
                    plcs, ri, pi, results, outs, okReads, sent, attempts,
                    connected, open, sweeps, mqttConnected, interruptedAt,
                    exitCode >>

\* tcp.py lines 147-148: client.close() of a client that did not connect,
\* then continue.
TcpCloseFailed(o) ==
    /\ mode = "continuous"
    /\ pc = "close_failed"
    /\ closes' = [closes EXCEPT ![dev] = @ + 1]
    /\ IF o = "ok"
         THEN /\ TcpNextDevice
              /\ UNCHANGED << pending, cause >>
         ELSE /\ TcpFault
              /\ UNCHANGED dev
    /\ UNCHANGED << mode, config, calls, printed,
                    plcs, ri, pi, results, outs, okReads, sent, attempts,
                    connected, open, sweeps, mqttConnected, interruptedAt,
                    exitCode >>

\* tcp.py lines 83-91: the entry one read appends to results.
TcpReadEntry(item, o) ==
    CASE o.kind = "ok" ->
           [address |-> item.address, values |-> o.regs, error |-> "none"]
      [] o.kind = "isError" ->
           [address |-> item.address, values |-> << >>, error |-> "Error: response"]
      [] o.kind = "ModbusException" ->
           [address |-> item.address, values |-> << >>, error |-> "Modbus Error"]
      [] OTHER ->
           [address |-> item.address, values |-> << >>, error |-> "Error: exception"]

\* tcp.py lines 79-92: one iteration of the loop of read_holding_registers;
\* after the last one the function returns and the loop of line 153 starts.
TcpRead(o) ==
    /\ mode = "continuous"
    /\ pc = "read"
    /\ LET item == plcs[dev].reads[ri]
           entry == TcpReadEntry(item, o)
       IN  /\ o \in ReadOutcomes(item.count)
           /\ results' = Append(results, entry)
           /\ outs' = Append(outs, o.kind)
           /\ okReads' = IF entry.error = "none"
                           THEN Append(okReads, [dev |-> dev, idx |-> ri,
                                                 values |-> entry.values])
                           ELSE okReads
           /\ ri' = ri + 1
           /\ pi' = 1
           /\ calls' = Append(calls, [dev |-> dev, idx |-> ri, kind |-> o.kind])
           /\ pc' = AfterRead(dev, ri + 1, results')
    /\ UNCHANGED << mode, config, printed,
                    plcs, dev, sent, attempts, connected, closes, open,
                    sweeps, mqttConnected, pending, cause, interruptedAt,
                    exitCode >>

\* tcp.py lines 96-101: the payload of publish_to_aws, less its timestamp.
Payload(plc_name, address, value) ==
    [plc_name |-> plc_name, register_address |-> address, value |-> value]

\* As PublishLog, with the success line logged outside the try statement.
PublishLog_AlwaysPublished(o) == "published"

\* tcp.py lines 102-106: what publish_to_aws logs about its publish call.
PublishLog(o) == IF o = "ok" THEN "published" ELSE "failed"

\* As ShouldPublish, without the test of the error.
ShouldPublish_Always(r) == TRUE

\* tcp.py lines 154-159: `if error` logs the entry, else it is published.
ShouldPublish(r) == r.error = "none"

\* As ResultIndex, with the results taken last first.
ResultIndex_Reversed(res, p) == Len(res) - p + 1

\* tcp.py line 153: the for statement takes the entries of results in list
\* order, so its p-th iteration handles the result of the p-th read.
ResultIndex(res, p) == p

\* tcp.py lines 153-159: one iteration of the loop over the results; an
\* entry without error is published (lines 95-106), one with error logged.
TcpHandleResult(o) ==
    /\ mode = "continuous"
    /\ pc = "publish"
    /\ LET at == ResultIndex(results, pi)
           r == results[at]
       IN  sent' = IF ShouldPublish(r)
                     THEN Append(sent,
                                 [dev |-> dev, idx |-> at,
                                  msg |-> Payload(plcs[dev].name, r.address, r.values),
                                  raised |-> (o = "raise"),
                                  logged |-> PublishLog(o)])
                     ELSE sent
    /\ pi' = pi + 1
    /\ pc' = AfterHandled(pi + 1, results)
    /\ UNCHANGED << mode, config, calls, printed,
                    plcs, dev, ri, results, outs, okReads, attempts,
                    connected, closes, open, sweeps, mqttConnected, pending,
                    cause, interruptedAt, exitCode >>

\* As TcpClose, with client.close() left out.
TcpClose_LeavesOpen(o) ==
    /\ mode = "continuous"
    /\ pc = "close"
    /\ TcpNextDevice
    /\ UNCHANGED << mode, config, calls, printed, plcs, ri, pi, results, outs,
                    okReads, sent, attempts, connected, closes, open, sweeps,
                    mqttConnected, pending, cause, interruptedAt, exitCode >>

\* tcp.py lines 160-161: client.close() after the results are handled.
TcpClose(o) ==
    /\ mode = "continuous"
    /\ pc = "close"
    /\ closes' = [closes EXCEPT ![dev] = @ + 1]
    /\ open' = open \ {dev}
    /\ IF o = "ok"
         THEN /\ TcpNextDevice
              /\ UNCHANGED << pending, cause >>
         ELSE /\ TcpFault
              /\ UNCHANGED dev
    /\ UNCHANGED << mode, config, calls, printed,
                    plcs, ri, pi, results, outs, okReads, sent, attempts,
                    connected, sweeps, mqttConnected, interruptedAt, exitCode >>

\* tcp.py line 162: time.sleep(5), then the next pass of the while loop.
TcpSleep ==
    /\ mode = "continuous"
    /\ pc = "sleep"
    /\ BeginSweep(plcs)
    /\ UNCHANGED << mode, config, printed, plcs, ri, pi, results, outs, open,
                    mqttConnected, pending, cause, interruptedAt, exitCode >>

\* The statements of the try block of tcp.py lines 141-162.
TcpPolling == {"construct", "connect", "close_failed", "read", "publish",
               "close", "sleep"}

\* tcp.py lines 163-164: KeyboardInterrupt is raised in the statement being
\* executed, leaves the while loop at once and is caught and logged.
TcpInterrupt ==
    /\ mode = "continuous"
    /\ pc \in TcpPolling
    /\ interruptedAt' = pc
    /\ pc' = "input"
    /\ cause' = "interrupt"
    /\ UNCHANGED << mode, config, calls, printed,
                    plcs, dev, ri, pi, results, outs, okReads, sent,
                    attempts, connected, closes, open, sweeps, mqttConnected,
                    pending, exitCode >>

\* tcp.py lines 165-166: input("Press Enter to exit..."), the whole of the
\* finally block; then the process ends, with a traceback and a non-zero
\* status when an exception is propagating.
TcpInput ==
    /\ mode = "continuous"
    /\ pc = "input"
    /\ pc' = "exited"
    /\ exitCode' = IF pending = "exception" THEN 1 ELSE 0
    /\ UNCHANGED << mode, config, calls, printed,
                    plcs, dev, ri, pi, results, outs, okReads, sent,
                    attempts, connected, closes, open, sweeps, mqttConnected,
                    pending, cause, interruptedAt >>

TcpNext ==
    \/ \E o \in LoadOutcomes : TcpLoad(o, load_plcs_from_config(config))
    \/ \E o \in CallOutcomes : TcpMqttConnect(o)
    \/ \E o \in CallOutcomes : TcpConstruct(o)
    \/ \E o \in ConnectOutcomes : TcpConnect(o)
    \/ \E o \in CallOutcomes : TcpCloseFailed(o)
    \/ \E o \in AllReadOutcomes : TcpRead(o)
    \/ \E o \in CallOutcomes : TcpHandleResult(o)
    \/ \E o \in CallOutcomes : TcpClose(o)
    \/ TcpSleep
    \/ TcpInterrupt
    \/ TcpInput


\* ------------------------------------------------------------------ ip.py
\* An exception leaving the for loop of ip.py lines 88-90: nothing catches
\* it, the process ends with a traceback.
IpDie(why) ==
    /\ pc' = "exited"
    /\ cause' = why
    /\ exitCode' = 1

\* ip.py lines 70-75: after the reads the results are printed one by one,
\* then the finally block runs.
IpAfterHandled(p, res) == IF p <= Len(res) THEN "report" ELSE "finally"

\* As IpAfterRead, with the loop over the results left out.
IpAfterRead_SkipsReport(d, r, res) ==
    IF r <= Len(plcs[d].reads) THEN "read" ELSE "finally"

IpAfterRead(d, r, res) ==
    IF r <= Len(plcs[d].reads) THEN "read" ELSE IpAfterHandled(1, res)

\* ip.py line 61: client = ModbusTcpClient(ip, port=port), before the try.
IpConstruct(o) ==
    /\ mode = "oneshot"
    /\ pc = "construct"
    /\ IF o = "ok"
         THEN /\ pc' = "connect"
              /\ UNCHANGED << cause, exitCode >>
         ELSE IpDie("fault")
    /\ UNCHANGED << mode, config, calls, printed,
                    plcs, dev, ri, pi, results, outs, okReads, sent,
                    attempts, connected, closes, open, sweeps, mqttConnected,
                    pending, interruptedAt >>

\* As IpConnect, with connect called before the try statement: its
\* exception ends the process.
IpConnect_RaiseEscapes(o) ==
    /\ mode = "oneshot"
    /\ pc = "connect"
    /\ attempts' = Append(attempts, dev)
    /\ CASE o = "true" ->
              /\ connected' = connected \cup {dev}
              /\ open' = open \cup {dev}
              /\ results' = << >>
              /\ outs' = << >>
              /\ ri' = 1
              /\ pi' = 1
              /\ pc' = IpAfterRead(dev, 1, << >>)
              /\ UNCHANGED << cause, exitCode >>
         [] o = "false" ->
              /\ pc' = "finally"
              /\ UNCHANGED << connected, open, results, outs, ri, pi, cause,
                              exitCode >>
         [] OTHER ->
              /\ IpDie("fault")
              /\ UNCHANGED << connected, open, results, outs, ri, pi >>
    /\ UNCHANGED << mode, config, calls, printed,
                    plcs, dev, okReads, sent, closes, sweeps,
                    mqttConnected, pending, interruptedAt >>

\* ip.py lines 64-70 and 77-78: client.connect().  False: return, through
\* the finally block.  An exception: printed (line 78), then the finally
\* block.  True: read_holding_registers starts with results = [] (line 34).
IpConnect(o) ==
    /\ mode = "oneshot"
    /\ pc = "connect"
    /\ attempts' = Append(attempts, dev)
    /\ IF o = "true"
         THEN /\ connected' = connected \cup {dev}
              /\ open' = open \cup {dev}
              /\ results' = << >>
              /\ outs' = << >>
              /\ ri' = 1
              /\ pi' = 1
              /\ pc' = IpAfterRead(dev, 1, << >>)
         ELSE /\ pc' = "finally"
              /\ UNCHANGED << connected, open, results, outs, ri, pi >>
    /\ UNCHANGED << mode, config, calls, printed,
                    plcs, dev, okReads, sent, closes, sweeps,
                    mqttConnected, pending, cause, interruptedAt, exitCode >>

\* ip.py lines 39-42: the call with unit=1 and, when that raises TypeError,
\* the call without it: o1 and o2 are what the two calls do.
IpReadOutcome(o1, o2) == IF o1.kind = "TypeError" THEN o2 ELSE o1

\* As IpReadCalls, with the second call made after any exception.
IpReadCalls_RetriesAnyException(d, r, o1, o2) ==
    << [dev |-> d, idx |-> r, kind |-> o1.kind] >>
        \o (IF o1.kind \in {"TypeError", "ModbusException", "Exception"}
              THEN << [dev |-> d, idx |-> r, kind |-> o2.kind] >>
              ELSE << >>)

\* ip.py lines 39-42: the calls of client.read_holding_registers one
\* iteration makes: the second only when the first raised TypeError.
IpReadCalls(d, r, o1, o2) ==
    << [dev |-> d, idx |-> r, kind |-> o1.kind] >>
        \o (IF o1.kind = "TypeError"
              THEN << [dev |-> d, idx |-> r, kind |-> o2.kind] >>
              ELSE << >>)

\* ip.py lines 44-52: the entry one read appends to results.
IpReadEntry(item, o) ==
    CASE o.kind = "ok" ->
           [address |-> item.address, values |-> o.regs, error |-> "none"]
      [] o.kind = "isError" ->
           [address |-> item.address, values |-> << >>,
            error |-> "Modbus Exception Code"]
      [] o.kind = "ModbusException" ->
           [address |-> item.address, values |-> << >>, error |-> "Modbus Error"]
      [] OTHER ->
           [address |-> item.address, values |-> << >>, error |-> "Error: exception"]

\* ip.py lines 35-53: one iteration of the loop of read_holding_registers;
\* after the last one the function returns and the loop of line 71 starts.
IpRead(o1, o2) ==
    /\ mode = "oneshot"
    /\ pc = "read"
    /\ LET item == plcs[dev].reads[ri]
           o == IpReadOutcome(o1, o2)
           entry == IpReadEntry(item, o)
       IN  /\ o1 \in ReadOutcomes(item.count)
           /\ o2 \in ReadOutcomes(item.count)
           /\ results' = Append(results, entry)
           /\ outs' = Append(outs, o.kind)
           /\ okReads' = IF entry.error = "none"
                           THEN Append(okReads, [dev |-> dev, idx |-> ri,
                                                 values |-> entry.values])
                           ELSE okReads
           /\ ri' = ri + 1
           /\ pi' = 1
           /\ calls' = calls \o IpReadCalls(dev, ri, o1, o2)
           /\ pc' = IpAfterRead(dev, ri + 1, results')
    /\ UNCHANGED << mode, config, printed,
                    plcs, dev, sent, attempts, connected, closes, open,
                    sweeps, mqttConnected, pending, cause, interruptedAt,
                    exitCode >>

\* ip.py lines 71-75: one iteration of the loop over the results: the entry
\* is printed, with or without error.
IpReport ==
    /\ mode = "oneshot"
    /\ pc = "report"
    /\ pi' = pi + 1
    /\ printed' = Append(printed, [dev |-> dev, idx |-> pi,
                                    sessionOpen |-> dev \in open])
    /\ pc' = IpAfterHandled(pi + 1, results)
    /\ UNCHANGED << mode, config, calls,
                    plcs, dev, ri, results, outs, okReads, sent,
                    attempts, connected, closes, open, sweeps, mqttConnected,
                    pending, cause, interruptedAt, exitCode >>

\* ip.py lines 80-82: client.close() in the finally block; then the
\* function returns, or the pending KeyboardInterrupt goes on.
IpClose(o) ==
    /\ mode = "oneshot"
    /\ pc = "finally"
    /\ closes' = [closes EXCEPT ![dev] = @ + 1]
    /\ open' = open \ {dev}
    /\ CASE o # "ok" -> IpDie("fault")
         [] pending = "interrupt" -> IpDie("interrupt")
         [] OTHER -> /\ pc' = "pause"
                     /\ UNCHANGED << cause, exitCode >>
    /\ UNCHANGED << mode, config, calls, printed,
                    plcs, dev, ri, pi, results, outs, okReads, sent,
                    attempts, connected, sweeps, mqttConnected, pending,
                    interruptedAt >>

\* ip.py lines 88-90: time.sleep(1), then the next device; after the last
\* one the script ends.
IpPause ==
    /\ mode = "oneshot"
    /\ pc = "pause"
    /\ IF dev < Len(plcs)
         THEN /\ dev' = dev + 1
              /\ pc' = "construct"
              /\ UNCHANGED << cause, exitCode >>
         ELSE /\ pc' = "exited"
              /\ cause' = "done"
              /\ exitCode' = 0
              /\ dev' = dev
    /\ UNCHANGED << mode, config, calls, printed,
                    plcs, ri, pi, results, outs, okReads, sent, attempts,
                    connected, closes, open, sweeps, mqttConnected, pending,
                    interruptedAt >>

\* The statements of the try block of ip.py lines 62-75.
IpTry == {"connect", "read", "report"}

\* KeyboardInterrupt in ip.py: `except Exception` does not catch it.  Inside
\* the try block the finally block runs first; at lines 61 and 90 the
\* process ends at once.
IpInterrupt ==
    /\ mode = "oneshot"
    /\ pc \in IpTry \cup {"construct", "pause"}
    /\ interruptedAt' = pc
    /\ IF pc \in IpTry
         THEN /\ pending' = "interrupt"
              /\ pc' = "finally"
              /\ UNCHANGED << cause, exitCode >>
         ELSE /\ IpDie("interrupt")
              /\ UNCHANGED pending
    /\ UNCHANGED << mode, config, calls, printed,
                    plcs, dev, ri, pi, results, outs, okReads, sent,
                    attempts, connected, closes, open, sweeps, mqttConnected >>

IpNext ==
    \/ \E o \in CallOutcomes : IpConstruct(o)
    \/ \E o \in ConnectOutcomes : IpConnect(o)
    \/ \E o1 \in AllReadOutcomes, o2 \in AllReadOutcomes : IpRead(o1, o2)
    \/ IpReport
    \/ \E o \in CallOutcomes : IpClose(o)
    \/ IpPause
    \/ IpInterrupt

\* ---------------------------------------------------------- specifications
Next == TcpNext \/ IpNext

\* Both programs, with every outcome of every library call and with
\* KeyboardInterrupt.
Spec == Init /\ [][Next]_vars

\* ip.py alone, with the outcomes of connect and of the reads free, and with
\* no KeyboardInterrupt and no exception from ModbusTcpClient(...) or
\* close(): the interpreter runs the script on until it ends.
InitOneShot == Init /\ mode = "oneshot"

NextOneShot ==
    \/ IpConstruct("ok")
    \/ \E o \in ConnectOutcomes : IpConnect(o)
    \/ \E o1 \in AllReadOutcomes, o2 \in AllReadOutcomes : IpRead(o1, o2)
    \/ IpReport
    \/ IpClose("ok")
    \/ IpPause

SpecOneShot == InitOneShot /\ [][NextOneShot]_vars /\ WF_vars(NextOneShot)

\* ------------------------------------------------------------------ claims
\* The statements between a successful connect and the return of close, in
\* tcp.py (lines 152-160) and in ip.py (lines 70-81).
InDevice(d) == dev = d /\ pc \in {"read", "publish", "close", "report", "finally"}

\* The for loop over the device list has run to its end.
SweepOver == pc = "sleep" \/ (mode = "oneshot" /\ cause = "done")

AllDevices == [i \in 1..Len(plcs) |-> i]

\* C1: in both run modes, close is invoked exactly once on every session
\* whose connect succeeded, before the scheduler goes on to the next device
\* or leaves the sweep, on every exit path out of the device's processing.
C1_ClosedOnEveryExitPath ==
    \A d \in connected : closes[d] <= 1 /\ (InDevice(d) \/ closes[d] = 1)

\* read_holding_registers has returned its list for the current device.
ReadsReturned ==
    /\ dev \in connected
    /\ \/ pc \in {"publish", "close", "report", "sleep"}
       \/ pc = "finally" /\ pending = "none"

\* C2: read_holding_registers returns exactly one result per read
\* specification, the i-th with the address of the i-th specification, an
\* error entry exactly where the read failed (error response,
\* ModbusException, any other Exception) and a values entry elsewhere; a
\* failed read does not stop the reads after it.
C2_OneResultPerSpec ==
    dev \in connected =>
        /\ Len(results) = Len(outs)
        /\ Len(results) <= Len(plcs[dev].reads)
        /\ \A i \in 1..Len(results) :
              /\ results[i].address = plcs[dev].reads[i].address
              /\ (results[i].error # "none") <=> (outs[i] # "ok")
              /\ outs[i] # "ok" => results[i].values = << >>
        /\ ReadsReturned => Len(results) = Len(plcs[dev].reads)

C2_Witness ==
    /\ ReadsReturned
    /\ Len(results) = 2
    /\ outs = << "ModbusException", "ok" >>
    /\ results[2].values = Registers(2)

\* C3: whichever devices are unreachable, a sweep calls connect for every
\* configured device exactly once, in the order of the device list, and
\* runs to the end of the list.
C3_EveryDeviceAttempted ==
    /\ Len(attempts) <= Len(plcs)
    /\ \A i \in 1..Len(attempts) : attempts[i] = i
    /\ connected \subseteq { attempts[i] : i \in 1..Len(attempts) }
    /\ SweepOver => attempts = AllDevices

C3_Witness ==
    /\ SweepOver
    /\ Len(plcs) >= 2
    /\ attempts = AllDevices
    /\ 1 \notin connected
    /\ Len(plcs) \in connected

\* The successful reads whose result the loop of tcp.py line 153 has handled.
Handled(e) == e.dev < dev \/ (e.dev = dev /\ e.idx < pi)
HandledReads == SelectSeq(okReads, Handled)

\* C4: in continuous mode every successful read produces exactly one send
\* attempt, carrying the device's name, the address of the read
\* specification and the registers returned, and a failed read none: over a
\* sweep there are as many send attempts as successful reads.
C4_OneSendPerSuccessfulRead ==
    mode = "continuous" =>
        /\ Len(sent) = Len(HandledReads)
        /\ \A i \in 1..Len(sent) :
              /\ sent[i].dev = HandledReads[i].dev
              /\ sent[i].idx = HandledReads[i].idx
              /\ sent[i].msg =
                    [plc_name |-> plcs[sent[i].dev].name,
                     register_address |->
                         plcs[sent[i].dev].reads[sent[i].idx].address,
                     value |-> HandledReads[i].values]
        /\ SweepOver => Len(sent) = Len(okReads)

C4_Witness ==
    /\ mode = "continuous"
    /\ pc = "sleep"
    /\ Len(sent) = 2
    /\ Len(results) = 2
    /\ results[1].error # "none"
    /\ results[2].error = "none"

\* C5: within a sweep the telemetry messages are handed to the channel in
\* device-then-address order: by the position of the device in the device
\* list, then by the position of the read specification in its reads list.
C5_DeviceThenAddressOrder ==
    \A a \in 1..Len(sent), b \in 1..Len(sent) :
        a < b =>
            \/ sent[a].dev < sent[b].dev
            \/ sent[a].dev = sent[b].dev /\ sent[a].idx < sent[b].idx

C5_Witness ==
    /\ Len(sent) = 3
    /\ sent[1].dev = 1
    /\ sent[2].dev = 2
    /\ sent[3].dev = 2
    /\ sweeps = 2

\* C6: no failure after polling has started ends the process or aborts the
\* sweep: connect returning failure, the constructor, connect, a read or
\* close raising, or a publish fault.
C6_NoFaultEndsPolling == cause # "fault"

\* C7: a publish attempt that fails is logged as a failure, never as
\* published; the loop goes on to the next result, the session of the
\* device is closed as usual, and the message is not sent a second time.
C7_FailedPublishRecordedNotRetried ==
    \A i \in 1..Len(sent) :
        /\ sent[i].raised <=> (sent[i].logged = "failed")
        /\ sent[i].raised /\ sent[i].dev = dev => pi > sent[i].idx
        /\ sent[i].raised /\ cause = "none" =>
              InDevice(sent[i].dev) \/ closes[sent[i].dev] = 1
        /\ \A k \in 1..Len(sent) :
              (sent[k].dev = sent[i].dev /\ sent[k].idx = sent[i].idx) => k = i

C7_Witness ==
    /\ pc = "sleep"
    /\ Len(sent) = 3
    /\ sent[1].raised
    /\ sent[1].logged = "failed"
    /\ ~sent[2].raised
    /\ closes[sent[1].dev] = 1

\* C8: in continuous mode no execution reaches process exit with the
\* outbound channel still connected: the cleanup after an interrupt closes it.
C8_ChannelClosedAtExit ==
    (mode = "continuous" /\ pc = "exited") => ~mqttConnected

\* C9: in continuous mode an interrupt does not cut a connect, read or
\* publish in flight short, and the current sweep is completed before the
\* scheduler goes to Done.
C9_InterruptCompletesSweep ==
    (/\ mode = "continuous"
     /\ cause = "interrupt"
     /\ interruptedAt \in {"connect", "read", "publish"}) =>
        /\ Len(results) = Len(plcs[dev].reads)
        /\ attempts = AllDevices
        /\ open = {}
        /\ Len(sent) = Len(okReads)

\* C10: one-shot mode terminates: for every combination of connect and read
\* outcomes it makes one pass in which connect is called for every device
\* of the list exactly once, in order, and then the process ends with
\* status 0.
C10_OneShotTerminates ==
    <>(/\ pc = "exited"
       /\ exitCode = 0
       /\ cause = "done"
       /\ attempts = AllDevices
       /\ open = {})

C10_Witness ==
    /\ mode = "oneshot"
    /\ pc = "exited"
    /\ exitCode = 0
    /\ attempts = << 1, 2 >>
    /\ connected = {2}
    /\ outs = << "isError", "ok" >>

\* C11: in continuous mode without cancellation the scheduler cycles between
\* sweeping and resting forever: every sweep finishes its pass over all
\* devices and is followed by a rest and a new sweep, so every device is
\* attempted again and again, and the loop has no terminal state: once
\* polling has begun, nothing but a cancellation takes the program out of it.
C11_CyclesForever ==
    (mode = "continuous" /\ mqttConnected /\ cause # "interrupt") =>
        pc \in TcpPolling

\* C12: for every successful read result, the value array of the telemetry
\* message has exactly as many entries as the count of the read
\* specification it comes from, however many registers the device response
\* carries.
C12_ValueLengthIsCount ==
    \A i \in 1..Len(sent) :
        Len(sent[i].msg.value) = plcs[sent[i].dev].reads[sent[i].idx].count

\* The devices whose connect() was called and did not return True.
Attempted(d) == \E i \in 1..Len(attempts) : attempts[i] = d
FailedConnects == { d \in 1..Len(plcs) : Attempted(d) /\ d \notin connected }

\* C13: when the connect of a device fails, no session is opened for it: no
\* read request is issued to it, no telemetry message is produced for it,
\* connect is not called for it a second time in the sweep, and the
\* scheduler goes on to the next device.
C13_FailedConnectOpensNothing ==
    \A d \in FailedConnects :
        /\ d \notin open
        /\ \A i \in 1..Len(calls) : calls[i].dev # d
        /\ \A i \in 1..Len(okReads) : okReads[i].dev # d
        /\ \A i \in 1..Len(sent) : sent[i].dev # d
        /\ \A i \in 1..Len(printed) : printed[i].dev # d
        /\ Cardinality({ i \in 1..Len(attempts) : attempts[i] = d }) = 1
        /\ d = dev => pc \notin {"read", "publish", "report", "close"}

C13_Witness ==
    /\ mode = "continuous"
    /\ FailedConnects = {1}
    /\ dev = 2
    /\ pc = "read"
    /\ closes[1] = 1

\* Two calls of client.read_holding_registers for the same read
\* specification of the same device in one sweep.
SameRead(i, k) == calls[i].dev = calls[k].dev /\ calls[i].idx = calls[k].idx

\* C14: within one sweep at most one read-holding-registers request is
\* issued per read specification of a device: a read that failed, by an
\* error response or by an exception of any type, is not issued a second
\* time before the next sweep.
C14_NoSecondRequest ==
    \A i \in 1..Len(calls), k \in 1..Len(calls) : SameRead(i, k) => i = k

\* C14, amended: within one sweep one read request is issued per read
\* specification of a device, but for this: in one-shot mode a call that
\* raised TypeError is followed at once by one more call for the same read;
\* no other failed read is issued again, and no read is issued three times.
C14_OneRequestUnlessTypeError ==
    \A i \in 1..Len(calls), k \in 1..Len(calls) :
        (SameRead(i, k) /\ i < k) =>
            /\ mode = "oneshot"
            /\ k = i + 1
            /\ calls[i].kind = "TypeError"

C14_Witness ==
    /\ mode = "oneshot"
    /\ pc = "exited"
    /\ Len(calls) = 4
    /\ calls[1].kind = "isError"
    /\ calls[2].kind = "TypeError"
    /\ SameRead(2, 3)
    /\ calls[3].kind = "ok"
    /\ calls[4].kind = "ModbusException"

\* C15: a configuration error (config file missing, [AWS] section missing,
\* a required key missing, a credential file missing) is fatal before
\* polling starts: the process exits with a non-zero status, and it has
\* called connect for no device, neither the MQTT connect, and has sent no
\* telemetry.
C15_ConfigErrorFatalBeforePolling ==
    cause = "config" =>
        /\ pc = "exited"
        /\ exitCode # 0
        /\ ~mqttConnected
        /\ sweeps = 0
        /\ attempts = << >>
        /\ calls = << >>
        /\ sent = << >>
        /\ open = {}

C15_Witness ==
    /\ mode = "continuous"
    /\ cause = "config"
    /\ pc = "exited"
    /\ exitCode = 1
    /\ Len(config) = MaxDevices

\* C16: every read specification of every device descriptor that reaches
\* the polling loop has count >= 1: whatever the queries value,
\* load_plcs_from_config places no entry with count 0 in reads.
C16_CountsAtLeastOne ==
    (mode = "continuous" /\ pc \in TcpPolling) =>
        \A d \in 1..Len(plcs) :
            \A r \in 1..Len(plcs[d].reads) : plcs[d].reads[r].count >= 1

IpCutShort(d) == d = dev /\ interruptedAt \in IpTry

C18_OneSessionAtATime ==
    /\ Cardinality(open) <= 1
    /\ open \subseteq {dev}
    /\ pc \in {"construct", "connect"} =>
          /\ open = {}
          /\ \A d \in 1..(dev - 1) : closes[d] = 1

C18_Witness ==
    /\ mode = "continuous"
    /\ pc = "connect"
    /\ dev = 2
    /\ connected = {1}
    /\ Len(okReads) = 1
    /\ closes[1] = 1
    /\ open = {}

\* A piece of a queries value that consists of two non-negative integers,
\* with or without blanks around them, and the read specification it names.
IsPair(q) ==
    LET parts == Split(q, ",")
    IN  Len(parts) = 2 /\ IsDigit(Strip(parts[1])) /\ IsDigit(Strip(parts[2]))
PairOf(q) ==
    LET parts == Split(q, ",")
    IN  ReadSpec(ToInt(Strip(parts[1])), ToInt(Strip(parts[2])))

\* The read specifications of the pieces that are such pairs, in order.
RECURSIVE PairsOf(_)
PairsOf(pieces) ==
    IF pieces = << >> THEN << >>
    ELSE (IF IsPair(Head(pieces)) THEN << PairOf(Head(pieces)) >> ELSE << >>)
           \o PairsOf(Tail(pieces))

\* C19: parsing a queries value yields, in order, one read specification
\* per semicolon-separated entry that consists of two non-negative integers
\* (address, count), blanks around the separators tolerated, and drops
\* exactly the other entries; "0,2;1,2" yields (0,2), (1,2), and joining
\* the parsed pairs again gives back that string.
C19_ParsesEveryPair ==
    (mode = "continuous" /\ pc \notin {"load"} /\ cause # "config") =>
        \A d \in 1..Len(config) :
            /\ plcs[d].reads = PairsOf(Split(config[d].queries, ";"))
            /\ config[d].queries = << "0", ",", "2", ";", "1", ",", "2" >> =>
                  /\ plcs[d].reads = << ReadSpec(0, 2), ReadSpec(1, 2) >>
                  /\ JoinQueries(plcs[d].reads) = config[d].queries

\* C20: in continuous mode no device connection is attempted unless the
\* connect call of the outbound channel has succeeded: when it fails at
\* startup, the process exits with status 1 and has issued no device
\* connect, no read and no publish.
C20_NoPollingWithoutChannel ==
    mode = "continuous" =>
        /\ (\/ pc \in TcpPolling
            \/ sweeps > 0
            \/ attempts # << >>
            \/ calls # << >>
            \/ sent # << >>) => mqttConnected
        /\ cause = "mqtt" =>
              /\ pc = "exited"
              /\ exitCode = 1
              /\ ~mqttConnected
              /\ sweeps = 0
              /\ attempts = << >>
              /\ calls = << >>
              /\ sent = << >>
              /\ open = {}

C20_Witness ==
    /\ mode = "continuous"
    /\ cause = "mqtt"
    /\ pc = "exited"
    /\ exitCode = 1
    /\ Len(plcs) = MaxDevices

=============================================================================
